---- MODULE Spec2Model ----
(***************************************************************************)
(* p2pool-exporter: the snapshot poller (api.py collect_api_data and its   *)
(* per-miner queries writing the redis record "miner:<address>") and the   *)
(* event-stream listener (api.py websocket_listener).                      *)
(*                                                                         *)
(* A JSON object is modelled as a function over Fields; a key that is not  *)
(* in the object maps to <<>>, a key that is present maps to <<v>> (or to  *)
(* <<a, b>> for the two-component values).  json.dumps / json.loads of     *)
(* such an object of integers keeps keys and values, so the stored string  *)
(* is modelled by the object itself.                                       *)
(***************************************************************************)
EXTENDS Integers, Sequences, FiniteSets, TLC

\* ------------------------------------------------------------- bounds
MaxRuns == 2           \* calls of get_payouts followed in PayoutsSpec
MaxBlocks == 1         \* entries in one side_blocks_in_window response
MaxPayoutId == 2       \* distinct payout ids (main_id) 1..MaxPayoutId
MaxReward == 1         \* coinbase_reward values 1..MaxReward
MaxFrames == 3         \* frames the event stream delivers in all
MaxConns == 2          \* stream connections that get established
MaxSamples == 2        \* samples one tracked miner's window can hold

\* ------------------------------------------------- program constants
EX == 3600             \* redis_client.set(..., ex=3600)
WINDOW_SECONDS == 600  \* estimate_hashrate(accepted_shares, window_seconds=600)
BACKOFF_SECONDS == 5   \* asyncio.sleep(5) in websocket_listener

\* ---------------------------------------------------------- the record
Fields == {"last_share_height", "total_blocks", "last_share_timestamp",
           "hashrate", "last_payout_id", "payouts", "raffle_rates"}

Absent == <<>>

EmptyDict == [f \in Fields |-> Absent]

\* Python's d.get(key): None (modelled Absent) when the key is missing.
DictGet(d, f) == d[f]

\* Python truthiness of d.get(key) for the integer fields: None and 0 are falsy.
Truthy(v) == v # Absent /\ v[1] # 0

\* Python's `d.get(key) or 0`.
OrZero(v) == IF Truthy(v) THEN v[1] ELSE 0

\* A merge that stores new_data alone: the record read is dropped.
DictReplace(a, b) == b

\* Python's dict union a | b: b's keys win, a's other keys are kept.
DictUnion(a, b) == [f \in Fields |-> IF b[f] # Absent THEN b[f] ELSE a[f]]

\* A redis key: missing (GET returns None) or holding a JSON object, with the
\* seconds left before it expires.
NoKey == [exists |-> FALSE, rec |-> EmptyDict, ttl |-> 0]

\* redis_client.set(key, json.dumps(new_data)) without ex: the key is given
\* no time-to-live.
RedisSetPersistent(new_data) == [exists |-> TRUE, rec |-> new_data, ttl |-> 0]

\* redis_client.set(key, json.dumps(new_data), ex=3600)
RedisSet(new_data) == [exists |-> TRUE, rec |-> new_data, ttl |-> EX]

\* What redis_client.get returns, as the code sees it: (truthy?, decoded object).
RedisGet(key) == [exists |-> key.exists, rec |-> key.rec]

\* ------------------------------------------------------ pure helpers
RECURSIVE SumDifficulty(_)
SumDifficulty(shares) ==
    IF shares = <<>> THEN 0 ELSE Head(shares)[2] + SumDifficulty(Tail(shares))

\* estimate_hashrate with the window's boundary left out (`<`).
estimate_hashrate_open(accepted_shares, now, window_seconds) ==
    LET recent_shares == SelectSeq(accepted_shares,
                                   LAMBDA s : now - s[1] < window_seconds)
    IN  <<SumDifficulty(recent_shares), window_seconds>>

\* utils.estimate_hashrate: the samples with now - timestamp <= window_seconds,
\* their difficulty summed, divided by window_seconds.  The quotient is a float
\* in the code; it is kept here as the exact pair <<numerator, denominator>>.
estimate_hashrate(accepted_shares, now, window_seconds) ==
    LET recent_shares == SelectSeq(accepted_shares,
                                   LAMBDA s : now - s[1] <= window_seconds)
    IN  <<SumDifficulty(recent_shares), window_seconds>>

\* total_difficulty / window_seconds with window_seconds = 0 is Python's
\* ZeroDivisionError.
ZeroDivision(quotient) == quotient[2] = 0

\* utils.prune_shares (and its copy, __main__.py lines 92-93), on a window of
\* the samples the listener appends ({"timestamp": .., "difficulty": ..}
\* dicts).  The lambda reads share.timestamp, an attribute a dict does not
\* have: list(filter(..)) raises AttributeError on the first sample.  Were
\* the attribute there, the filter would keep the samples OLDER than the
\* window (`filtered`), and the result is bound to the local name only: the
\* caller's list stays as it is either way.
prune_shares(accepted_shares, now, window_seconds) ==
    LET filtered == SelectSeq(accepted_shares,
                              LAMBDA share : share[1] < now - window_seconds)
    IN  [accepted_shares |-> accepted_shares,
         raised |-> accepted_shares # <<>>]

\* A side_blocks_in_window entry: an object <<timestamp, difficulty>>, or a
\* malformed (non-object) entry.
Malformed == <<>>
IsDict(b) == b # Malformed

\* api.get_sideblocks lines 59-65: count of object entries, and their greatest
\* timestamp starting from 0.
RECURSIVE CountBlocks(_)
CountBlocks(response) ==
    IF response = <<>> THEN 0
    ELSE (IF IsDict(Head(response)) THEN 1 ELSE 0) + CountBlocks(Tail(response))

RECURSIVE LastTimestamp(_, _)
LastTimestamp(response, last_timestamp) ==
    IF response = <<>> THEN last_timestamp
    ELSE LET b == Head(response)
         IN  LastTimestamp(Tail(response),
                 IF IsDict(b) /\ b[1] > last_timestamp THEN b[1] ELSE last_timestamp)

\* The comprehension of lines 73-76 subscripts every entry, object or not.
HasMalformed(response) == \E i \in 1..Len(response) : ~IsDict(response[i])

\* ------------------------------------------ new_data of each query
\* `cur` is what redis GET returned; `response` is the decoded HTTP body.
\* Each operator gives new_data as it stands before `cur_data | new_data`.

\* api.get_miner_info line 45
MinerInfoFresh(response) ==
    [EmptyDict EXCEPT !["last_share_height"] = <<response[1]>>]

\* api.get_sideblocks lines 82-87
SideblocksTimestamp(last_timestamp, cur) ==
    LET prev_timestamp == DictGet(cur.rec, "last_share_timestamp")
    IN  IF cur.exists /\ Truthy(prev_timestamp) /\ prev_timestamp[1] >= last_timestamp
        THEN prev_timestamp[1]
        ELSE last_timestamp

\* api.get_sideblocks lines 59-87
SideblocksFresh(response, cur, now) ==
    [EmptyDict EXCEPT
        !["total_blocks"] = <<CountBlocks(response)>>,
        !["last_share_timestamp"] =
            <<SideblocksTimestamp(LastTimestamp(response, 0), cur)>>,
        !["hashrate"] = estimate_hashrate(response, now, WINDOW_SECONDS)]

\* get_payouts without the comparison of line 117: every poll accumulates.
PayoutsAccumulatesAlways(payout, cur) == cur.exists

\* api.get_payouts lines 112-117; a payout is <<main_id, coinbase_reward>>.
PayoutsAccumulates(payout, cur) ==
    cur.exists /\ OrZero(DictGet(cur.rec, "last_payout_id")) # payout[1]

\* api.get_payouts lines 111-118
PayoutsFresh(response, cur) ==
    LET payout == response[1]
        id_only == [EmptyDict EXCEPT !["last_payout_id"] = <<payout[1]>>]
    IN  IF PayoutsAccumulates(payout, cur)
        THEN [id_only EXCEPT !["payouts"] =
                  <<OrZero(DictGet(cur.rec, "payouts")) + payout[2]>>]
        ELSE id_only

\* api.get_raffle_rates line 180; rates are <<hour, day>>.
RaffleFresh(response) ==
    [EmptyDict EXCEPT !["raffle_rates"] = response]

\* ---------------------------------------------------------------- state
Kinds == {"miner_info", "sideblocks", "payouts", "exchange_rates", "raffle_rates"}

\* The queries that go through query_api and write the miner's record.
PollKinds == {"miner_info", "sideblocks", "payouts"}

\* The queries that write the miner's record.
RecordKinds == PollKinds \cup {"raffle_rates"}

Runs == 1..MaxRuns

VARIABLES
    store,          \* the redis key "miner:<address>" of the one tracked miner
    gather,         \* per run: asyncio.gather "idle", "pending", "returned", "raised"
    session,        \* per run: the aiohttp.ClientSession "none", "open", "closed"
    task,           \* per run and kind: the coroutine's position and locals
    error_counter,  \* the p2pool_total_errors counter
    expect,         \* history: per field, the value last written by a query
                    \* that computes the field
    chain,          \* history: consecutive undisturbed get_payouts runs
    ws,             \* the listener's position in websocket_listener
    ws_event_counter, \* p2pool_exporter_ws_event_counter
    blocks_c,       \* p2pool_exporter_blocks, by type attribute
    difficulty_g,   \* p2pool_exporter_difficulty, by pool attribute
    conn,           \* history: connections established so far
    frames,         \* history: frames received so far
    last,           \* history: how the listener's last step ended
    waited,         \* history: seconds slept before the pending connect
    unknown_c,      \* what the listener has counted as messages of unknown type
    rcvd,           \* history: messages received so far, by class
    lastmsg,        \* history: the last message received and its miner_address
    idle,           \* history: seconds since the miner key was last written
    credit,         \* history: per payout id, how many times its reward is in
                    \* `payouts`: as stored, and as each query read it
    samples,        \* accepted_shares[miner]: the tracked miner's sample window
    clock,          \* time.time()
    window,         \* args.window: the configured window_seconds
    p2pool_hashrate, \* the p2pool_hashrate gauge of the tracked miner
    call            \* history: the last call on the window and how it ended

pollVars == <<store, gather, session, task, error_counter, expect, chain, idle,
             credit>>
wsVars == <<ws, ws_event_counter, blocks_c, difficulty_g, conn, frames, last,
           waited, unknown_c, rcvd, lastmsg>>
windowVars == <<samples, clock, window, p2pool_hashrate, call>>
vars == <<pollVars, wsVars, windowVars>>

NoCur == [exists |-> FALSE, rec |-> EmptyDict]

\* pc: "idle", "query" (HTTP exchange in flight), "get" (redis GET in flight),
\* "set" (redis SET in flight), "done" (returned), "failed" (raised).
\* cause: why it raised.  raised / wrote: history of the coroutine.
IdleTask == [pc |-> "idle", cause |-> "none", resp |-> <<>>, cur |-> NoCur,
             now |-> 0, raised |-> FALSE, wrote |-> FALSE]

NoChain == [stage |-> 0, owner |-> 0, id1 |-> 0, pay1 |-> Absent, id2 |-> 0]

\* ------------------------------------------------------ input domains
Heights == {1, 2}
Timestamps == {1, 2}
Difficulties == {5}
NowSet == {601, 602}
RaffleRates == {<<1000, 2000>>}

BlockEntries == (Timestamps \X Difficulties) \cup {Malformed}

SeqsUpTo(S, n) == UNION {[1..k -> S] : k \in 0..n}

Payouts == (1..MaxPayoutId) \X (1..MaxReward)

\* The decoded bodies a query can use, per query.
Responses(k) ==
    CASE k = "miner_info" -> {<<h>> : h \in Heights}
      [] k = "sideblocks" -> SeqsUpTo(BlockEntries, MaxBlocks)
      [] k = "payouts" -> {<<p>> : p \in Payouts}
      [] k = "raffle_rates" -> RaffleRates

\* Records earlier runs of collect_api_data leave under the miner key: the one
\* get_miner_info creates alone, and one every query has written to.
OnlyHeight == MinerInfoFresh(<<1>>)

FullRecord ==
    [EmptyDict EXCEPT
        !["last_share_height"] = <<1>>,
        !["total_blocks"] = <<1>>,
        !["last_share_timestamp"] = <<1>>,
        !["hashrate"] = <<5, WINDOW_SECONDS>>,
        !["last_payout_id"] = <<1>>,
        !["payouts"] = <<1>>,
        !["raffle_rates"] = <<1000, 2000>>]

InitialStores == {NoKey, RedisSet(OnlyHeight), RedisSet(FullRecord)}

\* Records get_payouts can meet: none, one without payout fields, one with
\* last_payout_id only (first poll met no record), one with both.
PayoutStores ==
    {NoKey, RedisSet(OnlyHeight)}
    \cup {RedisSet([OnlyHeight EXCEPT !["last_payout_id"] = <<i>>]) :
            i \in 1..MaxPayoutId}
    \cup {RedisSet([OnlyHeight EXCEPT !["last_payout_id"] = <<i>>,
                                      !["payouts"] = <<r>>]) :
            i \in 1..MaxPayoutId, r \in 1..MaxReward}

\* ------------------------------------------------------------ history
\* The chain follows runs of get_payouts that nothing else disturbs:
\* stage 1 = a run has read, 2 = it has written, 3 = the next run has read,
\* 4 = the next run has written.  id1 / pay1: the id the first run polled and
\* `payouts` after it; id2: the id the second run polled.
ChainOnGet(t, k) ==
    IF k # "payouts" THEN chain
    ELSE IF chain.stage \in {2, 4}
         THEN [stage |-> 3, owner |-> t,
               id1 |-> IF chain.stage = 2 THEN chain.id1 ELSE chain.id2,
               pay1 |-> DictGet(store.rec, "payouts"), id2 |-> 0]
         ELSE [NoChain EXCEPT !.stage = 1, !.owner = t]

ChainOnSet(t, k, id, new_store) ==
    IF k = "payouts" /\ chain.owner = t /\ chain.stage = 1
    THEN [chain EXCEPT !.stage = 2, !.id1 = id,
                       !.pay1 = DictGet(new_store.rec, "payouts")]
    ELSE IF k = "payouts" /\ chain.owner = t /\ chain.stage = 3
    THEN [chain EXCEPT !.stage = 4, !.id2 = id]
    ELSE NoChain

\* The tracked accounts (args.wallets / the {miner} of the record's key) and
\* the miner_address values a side_block message can carry.
Miners == {"m1"}
Addresses == Miners \cup {"x9"}

\* The classes of message the event stream delivers: the three types the
\* listener dispatches on, any other or missing `type`, and text that is not
\* JSON.
MsgClasses == {"side_block", "found_block", "orphaned_block", "unknown",
               "undecodable"}

NoMsg == [ok |-> FALSE, type |-> "none", payload |-> FALSE, main |-> Absent,
          side |-> Absent, miner_address |-> "none"]

\* The samples <<timestamp, difficulty>> a side_block message can bring, the
\* values time.time() takes and the values of --window-seconds (type=int,
\* default 600: every integer is accepted, 0 included).
Samples == {<<0, 100>>, <<500, 50>>, <<1, 100>>}
Clocks == {600, 601, 1101}
WindowChoices == {0, 100, WINDOW_SECONDS}

NoCall == [op |-> "none", now |-> 0, raised |-> FALSE, value |-> Absent]

\* The payout ids whose coinbase_reward `payouts` holds, each with the number
\* of times it was added.  A record holding last_payout_id and payouts is
\* what get_payouts leaves after adding that id's reward once.
NoCredit == [i \in 1..MaxPayoutId |-> 0]

CreditedIn(key) ==
    [i \in 1..MaxPayoutId |->
        IF key.exists /\ DictGet(key.rec, "payouts") # Absent
              /\ DictGet(key.rec, "last_payout_id") = <<i>>
        THEN 1 ELSE 0]

\* What a query reads with the record: the credits of the `payouts` it reads.
CreditRead == IF store.exists THEN credit.stored ELSE NoCredit

\* The credits of the `payouts` a query writes: those it read, with the
\* polled id added when get_payouts adds its reward (line 118); none when it
\* read no record (the object written then has no `payouts`).
CreditWritten(k, tk, read) ==
    IF ~tk.cur.exists THEN NoCredit
    ELSE IF k = "payouts" /\ PayoutsAccumulates(tk.resp[1], tk.cur)
         THEN [read EXCEPT ![tk.resp[1][1]] = @ + 1]
         ELSE read

----
InitWindow(lists, clocks, windows) ==
    /\ samples \in lists
    /\ clock \in clocks
    /\ window \in windows
    /\ p2pool_hashrate = Absent
    /\ call = NoCall

\* No sample has been received: accepted_shares[m] = [] (lines 105-107).
InitEmptyWindow == InitWindow({<<>>}, {0}, {WINDOW_SECONDS})

InitWs ==
    /\ ws = "connecting"
    /\ ws_event_counter = 0
    /\ blocks_c = [ty \in {"sideblock", "found", "orphaned"} |-> 0]
    /\ difficulty_g = [pool \in {"main", "side"} |-> 0]
    /\ conn = 0
    /\ frames = 0
    /\ last = "start"
    /\ waited = 0
    /\ unknown_c = 0
    /\ rcvd = [c \in MsgClasses |-> 0]
    /\ lastmsg = NoMsg

InitPoll(stores) ==
    /\ store \in stores
    /\ gather = [t \in Runs |-> "idle"]
    /\ session = [t \in Runs |-> "none"]
    /\ task = [t \in Runs |-> [k \in Kinds |-> IdleTask]]
    /\ error_counter = 0
    /\ expect = store.rec
    /\ chain = NoChain
    /\ idle = 0
    /\ credit = [stored |-> CreditedIn(store),
                 read |-> [t \in Runs |-> [k \in Kinds |-> NoCredit]]]

Init == InitPoll(InitialStores) /\ InitWs /\ InitEmptyWindow

\* ------------------------------------------------------------ poller
\* The first statement after a query's HTTP exchange has succeeded.
\*   get_payouts logs response[0] (lines 98-108): IndexError on an empty list;
\*   get_exchange_rates returns on "RateLimit" (lines 140-142) and otherwise
\*   writes the key "exchange_rates" (line 144), which no code of the package
\*   reads: only the coroutine's completion is kept;
\*   get_raffle_rates returns when the page does not parse (lines 153-167).
\* `shape` is "ok" for a body the query can use and "bad" otherwise.
AfterResponse(k, shape) ==
    CASE k = "payouts" -> IF shape = "bad" THEN "failed" ELSE "get"
      [] k = "exchange_rates" -> "done"
      [] k = "raffle_rates" -> IF shape = "bad" THEN "done" ELSE "get"
      [] OTHER -> "get"

\* A query whose exception is swallowed and that goes on to merge.
AfterRaiseGoesOn(k) == IF k \in {"raffle_rates", "exchange_rates"} THEN "done" ELSE "get"

\* Where a query goes when its HTTP exchange raises: session.get fails, or
\* the body carries a "status" key and `result.status` is evaluated on it
\* (cause "query"), or the session was closed under it (cause "closed").
\* Only get_raffle_rates catches the exception (lines 184-185).
AfterRaise(k) == IF k = "raffle_rates" THEN "done" ELSE "failed"

\* How many times error_counter is incremented for a query that raised:
\* api.query_api has no counter; in __main__.query_api the inc() of line 46 sits
\* behind the expression that raises, and behind session.get.
ErrorsCounted(cause) == 0

RaiseCause(t) == IF session[t] = "closed" THEN "closed" ELSE "query"

\* A coroutine that has left its await keeps its outcome only.
Ended(tk, pc, cause, wrote) ==
    [IdleTask EXCEPT !.pc = pc, !.cause = cause, !.wrote = wrote,
                     !.raised = tk.raised]

\* The scheduler starts collect_api_data (run t): the session is opened and
\* every coroutine is handed to asyncio.gather.
Launch(t) ==
    /\ gather[t] = "idle"
    /\ gather' = [gather EXCEPT ![t] = "pending"]
    /\ session' = [session EXCEPT ![t] = "open"]
    /\ task' = [task EXCEPT ![t] = [k \in Kinds |-> [IdleTask EXCEPT !.pc = "query"]]]
    /\ UNCHANGED <<store, error_counter, expect, chain, idle, credit,
                   wsVars,
                   windowVars>>

\* get_payouts alone is called (run t) with an open session.
CallPayouts(t) ==
    /\ task[t]["payouts"].pc = "idle"
    /\ session' = [session EXCEPT ![t] = "open"]
    /\ task' = [task EXCEPT ![t]["payouts"] = [IdleTask EXCEPT !.pc = "query"]]
    /\ UNCHANGED <<store, gather, error_counter, expect, chain, idle, credit,
                   wsVars,
                   windowVars>>

\* The HTTP exchange of query k succeeds.
QueryOk(t, k) ==
    /\ task[t][k].pc = "query"
    /\ session[t] = "open"
    /\ \E shape \in {"ok", "bad"} :
         LET pc == AfterResponse(k, shape)
         IN  task' = [task EXCEPT ![t][k] =
                 IF pc = "get" THEN [@ EXCEPT !.pc = "get"]
                 ELSE Ended(@, pc, IF pc = "failed" THEN "process" ELSE "none",
                            k = "exchange_rates" /\ shape = "ok")]
    /\ UNCHANGED <<store, gather, session, error_counter, expect, chain, idle, credit,
                   wsVars,
                   windowVars>>

\* The HTTP exchange of query k raises.
QueryRaise(t, k) ==
    /\ task[t][k].pc = "query"
    /\ task' = [task EXCEPT ![t][k] =
                   Ended([@ EXCEPT !.raised = TRUE], AfterRaise(k), RaiseCause(t), FALSE)]
    /\ error_counter' = error_counter + ErrorsCounted(RaiseCause(t))
    /\ UNCHANGED <<store, gather, session, expect, chain, idle, credit,
                   wsVars,
                   windowVars>>

\* redis GET of the miner key takes effect and the coroutine builds new_data
\* from the body it received.  get_sideblocks raises here when an entry is not
\* an object (lines 73-76).
Get(t, k) ==
    /\ k \in RecordKinds
    /\ task[t][k].pc = "get"
    /\ \E resp \in Responses(k), now \in (IF k = "sideblocks" THEN NowSet ELSE {0}) :
         task' = [task EXCEPT ![t][k] =
             IF k = "sideblocks" /\ HasMalformed(resp)
             THEN Ended(@, "failed", "process", FALSE)
             ELSE [@ EXCEPT !.pc = "set", !.resp = resp, !.cur = RedisGet(store),
                            !.now = now]]
    /\ chain' = ChainOnGet(t, k)
    /\ credit' = [credit EXCEPT !.read[t][k] =
                     IF task'[t][k].pc = "set" THEN CreditRead ELSE NoCredit]
    /\ UNCHANGED <<store, gather, session, error_counter, expect, idle, wsVars,
                   windowVars>>

\* The fields a query computes (new_data before it is united with the record).
Fresh(k, tk) ==
    CASE k = "miner_info" -> MinerInfoFresh(tk.resp)
      [] k = "sideblocks" -> SideblocksFresh(tk.resp, tk.cur, tk.now)
      [] k = "payouts" -> PayoutsFresh(tk.resp, tk.cur)
      [] k = "raffle_rates" -> RaffleFresh(tk.resp)

\* The object a query writes: `cur_data | new_data` when the key held a value.
NewData(k, tk) ==
    IF tk.cur.exists THEN DictUnion(tk.cur.rec, Fresh(k, tk)) ELSE Fresh(k, tk)

\* redis SET of the miner key takes effect and the coroutine returns.
Set(t, k) ==
    /\ k \in RecordKinds
    /\ task[t][k].pc = "set"
    /\ store' = RedisSet(NewData(k, task[t][k]))
    /\ task' = [task EXCEPT ![t][k] = Ended(@, "done", "none", TRUE)]
    /\ expect' = DictUnion(expect, Fresh(k, task[t][k]))
    /\ chain' = ChainOnSet(t, k,
                    IF k = "payouts" THEN task[t][k].resp[1][1] ELSE 0, store')
    /\ idle' = 0
    /\ credit' = [stored |-> CreditWritten(k, task[t][k], credit.read[t][k]),
                  read |-> [credit.read EXCEPT ![t][k] = NoCredit]]
    /\ UNCHANGED <<gather, session, error_counter, wsVars, windowVars>>

\* asyncio.gather(*tasks) without return_exceptions: the first exception of a
\* child is propagated to the awaiting collect_api_data at once, the other
\* children are left running; leaving `async with` closes the session.
GatherRaise(t) ==
    /\ gather[t] = "pending"
    /\ \E k \in Kinds : task[t][k].pc = "failed"
    /\ gather' = [gather EXCEPT ![t] = "raised"]
    /\ session' = [session EXCEPT ![t] = "closed"]
    /\ UNCHANGED <<store, task, error_counter, expect, chain, idle, credit,
                   wsVars,
                   windowVars>>

\* Every child returned: gather returns and the session is closed.
GatherReturn(t) ==
    /\ gather[t] = "pending"
    /\ \A k \in Kinds : task[t][k].pc = "done"
    /\ gather' = [gather EXCEPT ![t] = "returned"]
    /\ session' = [session EXCEPT ![t] = "closed"]
    /\ UNCHANGED <<store, task, error_counter, expect, chain, idle, credit,
                   wsVars,
                   windowVars>>

\* One run of collect_api_data on a record earlier runs left.
PollNext ==
    \/ Launch(1)
    \/ \E k \in Kinds : QueryOk(1, k)
    \/ \E k \in Kinds : QueryRaise(1, k)
    \/ \E k \in Kinds : Get(1, k)
    \/ \E k \in Kinds : Set(1, k)
    \/ GatherRaise(1)
    \/ GatherReturn(1)

Spec == Init /\ [][PollNext]_vars

\* get_payouts called MaxRuns times, the calls overlapping or not.
PayoutsInit == InitPoll(PayoutStores) /\ InitWs /\ InitEmptyWindow

PayoutsNext ==
    \/ \E t \in Runs : CallPayouts(t)
    \/ \E t \in Runs : QueryOk(t, "payouts")
    \/ \E t \in Runs : QueryRaise(t, "payouts")
    \/ \E t \in Runs : Get(t, "payouts")
    \/ \E t \in Runs : Set(t, "payouts")

PayoutsSpec == PayoutsInit /\ [][PayoutsNext]_vars

\* ------------------------------------------------------- time-to-live
\* The step by which time is followed while the key ages.
Elapsed == EX \div 2

\* redis drops a key once its time-to-live has run out: GET then returns None.
\* A key without a time-to-live (ttl = 0) stays.
Aged(key, seconds) ==
    IF ~key.exists \/ key.ttl = 0 THEN key
    ELSE IF key.ttl <= seconds THEN NoKey
    ELSE [key EXCEPT !.ttl = @ - seconds]

\* One of the queries is called (run t) with an open session, as a run of
\* collect_api_data calls it.
CallQuery(t, k) ==
    /\ task[t][k].pc = "idle"
    /\ session' = [session EXCEPT ![t] = "open"]
    /\ task' = [task EXCEPT ![t][k] = [IdleTask EXCEPT !.pc = "query"]]
    /\ UNCHANGED <<store, gather, error_counter, expect, chain, idle, credit,
                   wsVars,
                   samples, window, p2pool_hashrate, call, clock>>

\* Time passes while no write is older than the time-to-live.
Tick ==
    /\ idle < EX
    /\ idle' = idle + Elapsed
    /\ clock' = clock + Elapsed
    /\ store' = Aged(store, Elapsed)
    /\ UNCHANGED <<gather, session, task, error_counter, expect, chain, credit,
                   wsVars,
                   samples, window, p2pool_hashrate, call>>

\* get_miner_info called over MaxRuns polls, get_sideblocks in the first of
\* them, and the clock.
TtlNext ==
    \/ \E t \in Runs : CallQuery(t, "miner_info")
    \/ \E t \in Runs : QueryOk(t, "miner_info")
    \/ \E t \in Runs : QueryRaise(t, "miner_info")
    \/ \E t \in Runs : Get(t, "miner_info")
    \/ \E t \in Runs : Set(t, "miner_info")
    \/ CallQuery(1, "sideblocks")
    \/ QueryOk(1, "sideblocks")
    \/ QueryRaise(1, "sideblocks")
    \/ Get(1, "sideblocks")
    \/ Set(1, "sideblocks")
    \/ Tick

TtlInit ==
    /\ InitPoll({NoKey, RedisSet(OnlyHeight)})
    /\ InitWs
    /\ InitEmptyWindow

TtlSpec == TtlInit /\ [][TtlNext]_vars

\* ---------------------------------------------------------- listener
\* A frame of the event stream: `ok` = its text decodes as JSON; `type` =
\* msg["type"] ("missing" when the key is not there); `payload` = the object
\* msg[<type>] is present; `main` / `side` = the main-chain and side-chain
\* difficulty inside it (side_block: main_difficulty and difficulty;
\* found_block: main_block.difficulty and difficulty), Absent when not there.
Frame(ok, type, payload, main, side) ==
    [ok |-> ok, type |-> type, payload |-> payload, main |-> main, side |-> side]

Frames ==
    {Frame(FALSE, "missing", FALSE, Absent, Absent),
     Frame(TRUE, "missing", FALSE, Absent, Absent),
     Frame(TRUE, "other", FALSE, Absent, Absent),
     Frame(TRUE, "orphaned_block", FALSE, Absent, Absent)}
    \cup {Frame(TRUE, ty, FALSE, Absent, Absent) : ty \in {"side_block", "found_block"}}
    \cup {Frame(TRUE, ty, TRUE, m, sd) :
            ty \in {"side_block", "found_block"},
            m \in {Absent, <<3>>}, sd \in {Absent, <<4>>}}

\* The instruments as websocket_listener's loop body leaves them, and whether
\* the body raised (api.py lines 217-252, statement by statement).
Instruments(events, blocks, gauge, raised) ==
    [events |-> events, blocks |-> blocks, gauge |-> gauge, raised |-> raised]

\* A side_block branch that sets the gauges and leaves the counter alone.
ProcessSideBlockUncounted(msg, events) ==
    IF ~msg.payload THEN Instruments(events, blocks_c, difficulty_g, TRUE)
    ELSE LET g1 == IF msg.main # Absent
                   THEN [difficulty_g EXCEPT !["main"] = msg.main[1]]
                   ELSE difficulty_g
             g2 == IF msg.side # Absent
                   THEN [g1 EXCEPT !["side"] = msg.side[1]]
                   ELSE g1
         IN  Instruments(events, blocks_c, g2, FALSE)

ProcessSideBlock(msg, events) ==
    IF ~msg.payload THEN Instruments(events, blocks_c, difficulty_g, TRUE)
    ELSE LET g1 == IF msg.main # Absent
                   THEN [difficulty_g EXCEPT !["main"] = msg.main[1]]
                   ELSE difficulty_g
             g2 == IF msg.side # Absent
                   THEN [g1 EXCEPT !["side"] = msg.side[1]]
                   ELSE g1
         IN  Instruments(events,
                         [blocks_c EXCEPT !["sideblock"] = @ + 1], g2, FALSE)

\* A found_block branch that counts the block and sets the main gauge only.
ProcessFoundBlockMainOnly(msg, events) ==
    LET blocks == [blocks_c EXCEPT !["found"] = @ + 1]
    IN  IF ~msg.payload \/ msg.main = Absent
        THEN Instruments(events, blocks, difficulty_g, TRUE)
        ELSE Instruments(events, blocks,
                         [difficulty_g EXCEPT !["main"] = msg.main[1]],
                         msg.side = Absent)

ProcessFoundBlock(msg, events) ==
    LET blocks == [blocks_c EXCEPT !["found"] = @ + 1]
    IN  IF ~msg.payload \/ msg.main = Absent
        THEN Instruments(events, blocks, difficulty_g, TRUE)
        ELSE LET g1 == [difficulty_g EXCEPT !["main"] = msg.main[1]]
             IN  IF msg.side = Absent
                 THEN Instruments(events, blocks, g1, TRUE)
                 ELSE Instruments(events, blocks,
                                  [g1 EXCEPT !["side"] = msg.side[1]], FALSE)

ProcessFrame(msg) ==
    IF ~msg.ok THEN Instruments(ws_event_counter, blocks_c, difficulty_g, TRUE)
    ELSE LET events == ws_event_counter + 1
         IN  CASE msg.type = "missing" ->
                    Instruments(events, blocks_c, difficulty_g, TRUE)
               [] msg.type = "side_block" -> ProcessSideBlock(msg, events)
               [] msg.type = "found_block" -> ProcessFoundBlock(msg, events)
               [] msg.type = "orphaned_block" ->
                    Instruments(events,
                                [blocks_c EXCEPT !["orphaned"] = @ + 1],
                                difficulty_g, FALSE)
               [] OTHER -> Instruments(events, blocks_c, difficulty_g, FALSE)

\* The class of a frame.
FrameClass(msg) ==
    IF ~msg.ok THEN "undecodable"
    ELSE IF msg.type \in {"side_block", "found_block", "orphaned_block"}
         THEN msg.type
         ELSE "unknown"

\* The miner_address a frame can carry: side_block.miner_address; the listener
\* of api.py never reads it.
AddressesOf(msg) ==
    IF msg.type = "side_block" /\ msg.payload THEN Addresses ELSE {"none"}

\* What the listener adds to an unknown-type instrument for a message: the
\* else branch of api.py (lines 245-252) only logs, and the else branch of
\* __main__.py (lines 134-135) adds to ws_event_counter under the label
\* orphaned_block; no instrument counts unknown types.
UnknownCounted(msg) == 0

\* A listener that obtains fresh instruments for every connection.
ResetOnReconnect(counter) == 0

\* The instruments are obtained once, before `while True` (lines 205-209): a
\* new connection goes on with the counters as they stand.
KeptAcrossReconnect(counter) == counter

\* The listener that lets every exception end it: no try around the loop.
OnExceptionPropagate == "terminated"

\* Where the listener goes when an exception reaches `except Exception`
\* (lines 253-257): it logs and sleeps.
OnException == "backoff"

\* session.ws_connect succeeds.
WsConnectOk ==
    /\ ws = "connecting"
    /\ conn < MaxConns
    /\ ws' = "connected"
    /\ conn' = conn + 1
    /\ last' = "connected"
    /\ ws_event_counter' = KeptAcrossReconnect(ws_event_counter)
    /\ blocks_c' = [ty \in DOMAIN blocks_c |-> KeptAcrossReconnect(blocks_c[ty])]
    /\ UNCHANGED <<difficulty_g, frames, waited, unknown_c, rcvd, lastmsg, pollVars, windowVars>>

\* session.ws_connect raises (handshake failure).
WsConnectFail ==
    /\ ws = "connecting"
    /\ ws' = OnException
    /\ last' = "handshake_error"
    /\ UNCHANGED <<ws_event_counter, blocks_c, difficulty_g, conn, frames, waited,
                   unknown_c, rcvd, lastmsg, pollVars, windowVars>>

\* `async for` yields a frame and the loop body runs on it.  An exception of
\* the body leaves `async with ws_connect`, which closes the connection, and
\* reaches the except clause.
WsFrame ==
    /\ ws = "connected"
    /\ frames < MaxFrames
    /\ \E msg \in Frames :
         LET r == ProcessFrame(msg)
         IN  /\ ws_event_counter' = r.events
             /\ blocks_c' = r.blocks
             /\ difficulty_g' = r.gauge
             /\ ws' = IF r.raised THEN OnException ELSE "connected"
             /\ last' = IF r.raised THEN "frame_error" ELSE "frame_ok"
             /\ unknown_c' = unknown_c + UnknownCounted(msg)
             /\ rcvd' = [rcvd EXCEPT ![FrameClass(msg)] = @ + 1]
             /\ \E miner_address \in AddressesOf(msg) :
                    lastmsg' = [ok |-> msg.ok, type |-> msg.type,
                                payload |-> msg.payload, main |-> msg.main,
                                side |-> msg.side,
                                miner_address |-> miner_address]
    /\ frames' = frames + 1
    /\ UNCHANGED <<conn, waited, pollVars, windowVars>>

\* The socket drops: receiving raises.
WsDrop ==
    /\ ws = "connected"
    /\ ws' = OnException
    /\ last' = "drop"
    /\ UNCHANGED <<ws_event_counter, blocks_c, difficulty_g, conn, frames, waited,
                   unknown_c, rcvd, lastmsg, pollVars, windowVars>>

\* The server closes the stream: `async for` ends without an exception and
\* `while True` goes straight back to ws_connect.
WsClose ==
    /\ ws = "connected"
    /\ ws' = "connecting"
    /\ last' = "closed"
    /\ waited' = 0
    /\ UNCHANGED <<ws_event_counter, blocks_c, difficulty_g, conn, frames, unknown_c,
                   rcvd, lastmsg, pollVars, windowVars>>

\* asyncio.sleep(5) returns and `while True` goes back to ws_connect.
WsBackoffDone ==
    /\ ws = "backoff"
    /\ ws' = "connecting"
    /\ last' = "slept"
    /\ waited' = BACKOFF_SECONDS
    /\ UNCHANGED <<ws_event_counter, blocks_c, difficulty_g, conn, frames, unknown_c,
                   rcvd, lastmsg, pollVars, windowVars>>

WsNext ==
    \/ WsConnectOk
    \/ WsConnectFail
    \/ WsFrame
    \/ WsDrop
    \/ WsClose
    \/ WsBackoffDone

\* The listener starts beside whatever record the poller has left.
WsInit == InitPoll(InitialStores) /\ InitWs /\ InitEmptyWindow

WsSpec == WsInit /\ [][WsNext]_vars

\* The event loop resumes the listener when its sleep is over.
WsLiveSpec == WsSpec /\ WF_vars(WsBackoffDone)

\* ---------------------------------------------------------- estimator
\* The listener of __main__.py records a sample of the tracked miner
\* (lines 121-126): append, prune_shares, then the gauge is set to
\* estimate_hashrate over the window.  An exception leaves the statements
\* after it undone.
RecordSample ==
    /\ Len(samples) < MaxSamples
    /\ \E share \in Samples :
         LET appended == Append(samples, share)
             pruned == prune_shares(appended, clock, window)
             estimate == estimate_hashrate(pruned.accepted_shares, clock, window)
             raised == pruned.raised \/ ZeroDivision(estimate)
         IN  /\ samples' = pruned.accepted_shares
             /\ p2pool_hashrate' = IF raised THEN p2pool_hashrate ELSE estimate
             /\ call' = [op |-> "record_sample", now |-> clock, raised |-> raised,
                         value |-> IF raised THEN Absent ELSE estimate]
    /\ UNCHANGED <<clock, window, pollVars, wsVars>>

\* estimate_hashrate(accepted_shares[miner], window_seconds) is called on the
\* window as it stands.
Estimate ==
    /\ LET estimate == estimate_hashrate(samples, clock, window)
       IN  call' = [op |-> "estimate", now |-> clock,
                    raised |-> ZeroDivision(estimate),
                    value |-> IF ZeroDivision(estimate) THEN Absent ELSE estimate]
    /\ UNCHANGED <<samples, clock, window, p2pool_hashrate, pollVars, wsVars>>

\* Time passes.
Advance ==
    /\ \E later \in Clocks : later > clock /\ clock' = later
    /\ UNCHANGED <<samples, window, p2pool_hashrate, call, pollVars, wsVars>>

WindowNext ==
    \/ RecordSample
    \/ Estimate
    \/ Advance

\* The estimator's functions on every window of up to MaxSamples samples.
WindowInit ==
    /\ InitPoll({NoKey})
    /\ InitWs
    /\ InitWindow(SeqsUpTo(Samples, MaxSamples), Clocks, WindowChoices)

WindowSpec == WindowInit /\ [][WindowNext]_vars

\* ------------------------------------------------------------ claims
AllEnded(t) == \A k \in Kinds : task[t][k].pc \in {"done", "failed"}

\* The fields each query computes.
Produces(k) ==
    CASE k = "miner_info" -> {"last_share_height"}
      [] k = "sideblocks" -> {"total_blocks", "last_share_timestamp", "hashrate"}
      [] k = "payouts" -> {"last_payout_id", "payouts"}
      [] k = "raffle_rates" -> {"raffle_rates"}
      [] OTHER -> {}

\* C1: once every query of the run has ended, the record holds, for every
\* field, the value last written by a query that computes that field: no
\* merge has been lost to another merge writing back the record it read.
C1_NoMergeLost ==
    AllEnded(1) =>
        \A f \in Fields : expect[f] # Absent => store.rec[f] = expect[f]

\* C2: when get_payouts runs twice in a row (nothing else touches the key in
\* between) and both polls return the same main_id, `payouts` after the
\* second run equals `payouts` after the first.
C2_PayoutDedupIdempotent ==
    (chain.stage = 4 /\ chain.id1 = chain.id2) =>
        DictGet(store.rec, "payouts") = chain.pay1

C2_Witness ==
    /\ chain.stage = 4
    /\ chain.id1 = chain.id2
    /\ chain.pay1 # Absent
    /\ DictGet(store.rec, "last_payout_id") = <<chain.id2>>

\* C3: a get_payouts write whose polled id differs from the last_payout_id it
\* read (no record and no last_payout_id included) leaves `payouts` equal to
\* the payouts it read (0 if none) plus the polled coinbase_reward, and
\* last_payout_id equal to the polled id.
C3_NewIdAddsReward ==
    [][\A t \in Runs :
        LET tk == task[t]["payouts"]
            payout == tk.resp[1]
        IN  (tk.pc = "set" /\ task'[t]["payouts"].pc = "done"
                /\ DictGet(tk.cur.rec, "last_payout_id") # <<payout[1]>>)
            => /\ DictGet(store'.rec, "payouts")
                    = <<OrZero(DictGet(tk.cur.rec, "payouts")) + payout[2]>>
               /\ DictGet(store'.rec, "last_payout_id") = <<payout[1]>>]_vars

\* C4: while the record exists, its last_share_timestamp never goes down
\* (and never disappears) in any step.
C4_TimestampNeverRegresses ==
    [][(store.exists /\ store'.exists
            /\ Truthy(DictGet(store.rec, "last_share_timestamp")))
        => /\ DictGet(store'.rec, "last_share_timestamp") # Absent
           /\ DictGet(store'.rec, "last_share_timestamp")[1]
                >= DictGet(store.rec, "last_share_timestamp")[1]]_vars

\* C5: while the record exists, its `payouts` never goes down (and never
\* disappears) in any step of any interleaving of the run's queries.
C5_PayoutsNeverDecrease ==
    [][(store.exists /\ store'.exists /\ DictGet(store.rec, "payouts") # Absent)
        => /\ DictGet(store'.rec, "payouts") # Absent
           /\ DictGet(store'.rec, "payouts")[1] >= DictGet(store.rec, "payouts")[1]]_vars

\* A failure that is not the consequence of a sibling's (the closed session).
OwnFailure(t, k) == task[t][k].cause \in {"query", "process"}

\* C6: when exactly one of the three per-account queries of a run fails with
\* an HTTP error (and no query fails for another reason of its own), the other
\* two complete and write, and the error counter has been incremented once.
C6_OneFailureIsolated ==
    \A bad \in PollKinds :
        (/\ AllEnded(1)
         /\ task[1][bad].cause = "query"
         /\ \A k \in Kinds \ {bad} : ~OwnFailure(1, k))
        => /\ \A k \in PollKinds \ {bad} : task[1][k].pc = "done" /\ task[1][k].wrote
           /\ error_counter = 1

\* C7: the run's session is not closed (collect_api_data has not returned)
\* while a query it launched is still in flight.
C7_JoinWaitsForAll ==
    session[1] = "closed" => AllEnded(1)

\* C8: a query whose HTTP exchange raised never reads or writes the miner key,
\* and the fields it computes hold what they held before the run.
C8_FailedQueryWritesNothing ==
    \A t \in Runs, k \in Kinds :
        task[t][k].raised =>
            /\ task[t][k].pc \in {"done", "failed"}
            /\ ~task[t][k].wrote
            /\ \A f \in Produces(k) : store.rec[f] = expect[f]

C8_Witness ==
    /\ AllEnded(1)
    /\ task[1]["miner_info"].raised
    /\ task[1]["miner_info"].cause = "query"
    /\ task[1]["payouts"].wrote
    /\ store.exists
    /\ DictGet(store.rec, "last_payout_id") = <<2>>
    /\ DictGet(store.rec, "last_share_height") = <<1>>

C10_FrameErrorKeepsConnection ==
    last = "frame_error" => ws = "connected"

\* C11: every message whose `type` is none of side_block, found_block and
\* orphaned_block (a missing `type` included) adds exactly one to the
\* unknown-type count, leaves the side / found / orphaned block counters as
\* they are, and does not raise.
C11_UnknownTypeCounted ==
    [][rcvd'["unknown"] = rcvd["unknown"] + 1
        => /\ unknown_c' = unknown_c + 1
           /\ blocks_c' = blocks_c
           /\ last' = "frame_ok"]_vars

\* C12: the event counter and every block counter never go down in any step,
\* a disconnect, a backoff and a reconnect included.
C12_CountersNeverDecrease ==
    [][/\ ws_event_counter' >= ws_event_counter
       /\ \A ty \in DOMAIN blocks_c : blocks_c'[ty] >= blocks_c[ty]]_vars

C12_Witness ==
    /\ last = "connected"
    /\ conn >= 2
    /\ waited = BACKOFF_SECONDS
    /\ ws_event_counter >= 2
    /\ blocks_c["found"] >= 1
    /\ blocks_c["sideblock"] >= 1

\* C13: at every point each block counter equals the number of messages of
\* its type received so far (each message counted once, none twice, a
\* reconnect included).
C13_DispatchedExactlyOnce ==
    /\ blocks_c["sideblock"] = rcvd["side_block"]
    /\ blocks_c["found"] = rcvd["found_block"]
    /\ blocks_c["orphaned"] = rcvd["orphaned_block"]

\* A call of estimate_hashrate has just returned or raised: the window and the
\* clock are those it ran on.
Estimated == call.op = "estimate" /\ call.now = clock

\* A sample has just been recorded.
Recorded == call'.op = "record_sample" /\ samples' # samples

\* The positions of the samples inside the window, boundary included.
InWindow(shares, now, w) == {i \in 1..Len(shares) : now - shares[i][1] <= w}

RECURSIVE SumOver(_, _)
SumOver(I, shares) ==
    IF I = {} THEN 0
    ELSE LET i == CHOOSE j \in I : TRUE
         IN  shares[i][2] + SumOver(I \ {i}, shares)

\* C14: after every sample insertion (append, then prune_shares) every sample
\* the window retains has timestamp >= now - window_seconds.
C14_WindowPruned ==
    [][Recorded =>
        \A i \in 1..Len(samples') : samples'[i][1] >= clock - window]_vars

\* C15: for window_seconds > 0, estimate_hashrate returns the difficulty of
\* the samples with now - timestamp <= window_seconds (boundary included)
\* summed and divided by window_seconds; window 600 with samples (0, 100) and
\* (500, 50) at now = 600 gives 150 / 600.
C15_FixedWindowEstimate ==
    /\ (Estimated /\ window > 0) =>
          /\ ~call.raised
          /\ call.value = <<SumOver(InWindow(samples, clock, window), samples),
                            window>>
    /\ (Estimated /\ window = 600 /\ clock = 600
            /\ samples = <<(<<0, 100>>), (<<500, 50>>)>>) =>
          call.value = <<150, 600>>

C15_Witness ==
    /\ Estimated
    /\ window = 600
    /\ clock = 601
    /\ samples = <<(<<0, 100>>), (<<1, 100>>)>>
    /\ call.value = <<100, 600>>

\* C16: estimate_hashrate on a window with no sample inside it returns 0 and
\* does not raise, whatever window_seconds the command line accepted.
C16_EmptyWindowIsZero ==
    (Estimated /\ InWindow(samples, clock, window) = {}) =>
        /\ ~call.raised
        /\ call.value[1] = 0

\* C17: the step that processes a tracked miner's sample appends it to the
\* window and sets the miner's hashrate gauge to the estimate over the
\* updated window.
C17_SamplePushesGauge ==
    [][Recorded =>
        /\ \E share \in Samples : samples' = Append(samples, share)
        /\ ~call'.raised
        /\ p2pool_hashrate' = estimate_hashrate(samples', clock, window)]_vars

\* A side_block message carrying its side_block object has just been received
\* for a miner_address that is not tracked.
UntrackedSideBlock ==
    /\ rcvd'["side_block"] = rcvd["side_block"] + 1
    /\ lastmsg'.payload
    /\ lastmsg'.miner_address \notin Miners

Written ==
    \E t \in Runs, k \in RecordKinds :
        task[t][k].pc = "set" /\ task'[t][k].pc = "done"

\* C19: every write of the record gives it the full time-to-live; the record
\* only ever disappears by ageing, once a full time-to-live has passed since
\* its last write; and a record last written less than a time-to-live ago is
\* there, with what is left of its time-to-live.
C19_TtlOnEveryWrite ==
    /\ [][/\ Written => (store'.exists /\ store'.ttl = EX)
          /\ (store.exists /\ ~store'.exists) => (~Written /\ idle' >= EX)]_vars
    /\ [](store.exists => (idle < EX /\ store.ttl = EX - idle))
    /\ [](idle >= EX => ~store.exists)
    /\ []((idle < EX /\ \E t \in Runs, k \in RecordKinds : task[t][k].wrote)
            => store.exists)

C19_Witness ==
    /\ store.exists
    /\ clock > EX
    /\ idle > 0
    /\ task[1]["sideblocks"].wrote
    /\ \E t \in Runs \ {1} : task[t]["miner_info"].wrote

\* get_sideblocks has just written the record.
SideblocksWritten(t) ==
    task[t]["sideblocks"].pc = "set" /\ task'[t]["sideblocks"].pc = "done"

\* C20: get_sideblocks never fails on the response it received, entries that
\* are not objects included, and what it stores is total_blocks = the number
\* of object entries and a last_share_timestamp not below their greatest
\* timestamp.
C20_MalformedEntriesSkipped ==
    /\ [](\A t \in Runs : task[t]["sideblocks"].cause # "process")
    /\ [][\A t \in Runs :
            SideblocksWritten(t) =>
              LET response == task[t]["sideblocks"].resp
              IN  /\ store'.rec["total_blocks"] = <<CountBlocks(response)>>
                  /\ store'.rec["last_share_timestamp"][1]
                        >= LastTimestamp(response, 0)]_vars

\* Query k of run t has just written the record.
QueryWritten(t, k) == task[t][k].pc = "set" /\ task'[t][k].pc = "done"

\* C21: when a query writes into a record it found, every field the query
\* does not produce has, after the write, the value it had in the record the
\* query read.
C21_MergeFieldByField ==
    [][\A t \in Runs, k \in RecordKinds :
        (QueryWritten(t, k) /\ task[t][k].cur.exists) =>
            \A f \in Fields \ Produces(k) :
                store'.rec[f] = task[t][k].cur.rec[f]]_vars

C21_Witness ==
    /\ task[1]["miner_info"].wrote
    /\ task[1]["payouts"].pc = "query"
    /\ task[1]["raffle_rates"].pc = "query"
    /\ task[1]["sideblocks"].wrote
    /\ store.rec["last_share_height"] = <<2>>
    /\ store.rec["total_blocks"] = <<0>>
    /\ store.rec["payouts"] = <<1>>
    /\ store.rec["last_payout_id"] = <<1>>
    /\ store.rec["raffle_rates"] = <<1000, 2000>>

\* A message has just been received.
Received == frames' = frames + 1

\* The gauge of a pool after a message that may carry its difficulty.
GaugeAfter(pool, carried) ==
    IF carried # Absent THEN carried[1] ELSE difficulty_g[pool]

C23_PayoutIdCountedOnce ==
    store.exists => \A i \in 1..MaxPayoutId : credit.stored[i] <= 1

\* C24: whenever the listener is about to connect again after a connection,
\* it has slept the backoff since that connection ended.
C24_BackoffBeforeReconnect ==
    (ws = "connecting" /\ conn >= 1) => waited = BACKOFF_SECONDS

====
